---------------------------- MODULE Spec2Model ----------------------------
(***************************************************************************)
(* The command handlers of the transportation workbench as a state         *)
(* machine.  The host application (document, sketch, selection service,    *)
(* dialogs) is the environment: what a handler reads from it is an input   *)
(* drawn when the handler is invoked or when the helper that reads it is   *)
(* called, and what a handler does to it is appended to the log `calls`.   *)
(* Handlers run one at a time on the host's UI thread.                     *)
(***************************************************************************)
EXTENDS Integers, Sequences, FiniteSets, TLC

VARIABLES
    cmd,            \* the command handler that is running or ran last
    pc,             \* position inside the handler
    result,         \* "running", "returned" or the name of the exception raised
    self_sketch,    \* InsertCurve.sketch, the attribute set by Activated
    interp,         \* the interpreter this invocation has been seen to run on
    gui_selection,  \* Gui.Selection.getSelection()
    selection,      \* GeoUtils.get_selection(self.sketch)
    Constraints,    \* self.sketch.Constraints
    doc,            \* what the culvert and loft handlers read from the document
    sel_list,       \* Activated's local `selection`
    geo_dict,       \* Activated's local `geo_dict`
    vertex_index,   \* Activated's local `vertex_index`
    calls,          \* host calls that change the document or show a dialog
    dialogs,        \* QMessageBox.critical calls made by _notify_error
    prints,         \* console messages
    task            \* the ImportTask object, its form and the calls made on it

vars == <<cmd, pc, result, self_sketch, interp, gui_selection, selection,
          Constraints, doc, sel_list, geo_dict, vertex_index, calls, dialogs,
          prints, task>>

\* ------------------------------------------------------------------ bounds

\* Most geometry elements selected in the sketch.
MaxSel == 2

\* Most constraints in the sketch.
MaxConstraints == 1

\* Most _notify_error calls in a behaviour of SpecNotify.
MaxDialogs == 3

\* An arc's get_points() holds its start point and its end point.
ArcPointCount == 2

\* ---------------------------------------------------------------- elements

\* A SketchElement container: its index in the sketch and what it wraps.
Elem(kind, index, type, constr) ==
    [kind |-> kind, index |-> index, type |-> type, Construction |-> constr]

NoneElem == Elem("None", -1, "NoneType", FALSE)

SketchGeometry(index, type, constr) == Elem("geometry", index, type, constr)

SketchConstraint(index) == Elem("constraint", index, "Constraint", FALSE)

\* The index of a geometry element of the sketch that is not selected.
OtherIdx == MaxSel

\* sketch.GeometryCount: addGeometry returns it as the new element's index.
GeometryCount == MaxSel + 1

GeoShapes ==
    { [type |-> "LineSegment", Construction |-> TRUE],
      [type |-> "LineSegment", Construction |-> FALSE],
      [type |-> "ArcOfCircle", Construction |-> FALSE],
      [type |-> "Circle", Construction |-> FALSE] }

\* The selected geometry: the sketch's elements 0 .. n-1, in selection order.
Selections ==
    UNION { { [i \in 1..n |-> SketchGeometry(i - 1, f[i].type, f[i].Construction)]
              : f \in [1..n -> GeoShapes] } : n \in 0..MaxSel }

ConstraintTypes == {"Coincident", "PointOnObject", "Tangent", "Horizontal"}

\* The elements a constraint joins: the two elements a valid selection holds,
\* or an element that is not selected.
GeoEnds == {0, 1, OtherIdx}

ConstraintSet ==
    { c \in [Type : ConstraintTypes, First : GeoEnds, Second : GeoEnds]
        : c.First # c.Second }

ConstraintLists == UNION { [1..n -> ConstraintSet] : n \in 0..MaxConstraints }

\* Point positions of a constraint: none, start, end, mid.
PointPos == 0..3

OtherShapes ==
    { SketchGeometry(OtherIdx, "LineSegment", TRUE),
      SketchGeometry(OtherIdx, "ArcOfCircle", FALSE) }

\* What match_attached_geometry may return for an element of `sel`.
AttachedLists(sel) ==
    LET own == { sel[i] : i \in DOMAIN sel }
    IN  {<<>>} \cup { <<e>> : e \in own \cup OtherShapes }
               \cup { <<e, o>> : e \in own, o \in OtherShapes }
               \cup { <<o, e>> : e \in own, o \in OtherShapes }

\* What match_by_vertex may return: constraints and geometry on the vertex.
VertexLists ==
    LET cs == { SketchConstraint(i - 1) : i \in DOMAIN Constraints }
        gs == { SketchGeometry(OtherIdx, "LineSegment", TRUE) }
    IN  {<<>>} \cup { <<e>> : e \in cs \cup gs }
               \cup { <<c, g>> : c \in cs, g \in gs }
               \cup { <<g, c>> : c \in cs, g \in gs }

\* --------------------------------------------------------------- host calls

Call(op, index, pos, name) ==
    [op |-> op, index |-> index, pos |-> pos, name |-> name]

Recompute == Call("recompute", -1, 0, "")

MutatingOps ==
    {"addGeometry", "addConstraint", "delConstraint", "movePoint",
     "addObject", "newObject", "setProperty", "setExpression",
     "createLoftGroup", "regenerate"}

Mutations(log) == SelectSeq(log, LAMBDA c : c.op \in MutatingOps)

Ops(log) == { log[i].op : i \in DOMAIN log }

\* ------------------------------------------------------------ python dicts

EmptyDict == [k \in {} |-> NoneElem]

Put(d, k, v) == [x \in (DOMAIN d) \cup {k} |-> IF x = k THEN v ELSE d[x]]

HasKey(d, k) == k \in DOMAIN d

\* ------------------------------------------------------ InsertCurve helpers

KnownTags ==
    {"Selection", "Attached Geometry", "Invalid Geometry",
     "Invalid Constraint", "Not Coincident", "No Arc"}

\* _notify_error without its last branch: "No Arc" has no message of its own.
Mut_notify_error(error_type) ==
    [error_type |-> error_type,
     title |-> error_type \o " Error",
     message |->
        IF error_type = "Selection" THEN "Select two adjacent back tangents"
        ELSE IF error_type = "Attached Geometry"
        THEN "Selected elements have attached arc."
        ELSE IF error_type = "Invalid Geometry"
        THEN "Selected elements have incorrect geometry."
        ELSE IF error_type = "Invalid Constraint"
        THEN "Selected geometry are not properly constrained."
        ELSE IF error_type = "Not Coincident"
        THEN "Selected geometry do not intersect."
        ELSE "UNDEFINED ERROR"]

\* _notify_error: the dialog shown for an error-type tag.
notify_error(error_type) ==
    LET title == error_type \o " Error"
        message ==
            IF error_type = "Selection" THEN
                "Select two adjacent back tangents, two adjacent curves,             or an adjacent back tangent and curve to place curve."
            ELSE IF error_type = "Attached Geometry" THEN
                "Selected elements have attached arc."
            ELSE IF error_type = "Invalid Geometry" THEN
                "Selected elements have incorrect geometry.             Select either line segments or arcs.  Line segments must be             construction mode."
            ELSE IF error_type = "Invalid Constraint" THEN
                "Selected geometry are not properly constrained."
            ELSE IF error_type = "Not Coincident" THEN
                "Selected geometry do not intersect."
            ELSE IF error_type = "No Arc" THEN
                "Expected an arc to be selected."
            ELSE "UNDEFINED ERROR"
    IN  [error_type |-> error_type, title |-> title, message |-> message]

Notify(tags) == [i \in DOMAIN tags |-> notify_error(tags[i])]

RECURSIVE Mut_GeoLoop(_, _, _, _)
\* The type loop accepting every line segment, in construction mode or not.
Mut_GeoLoop(sel, i, last_type, is_two_lines) ==
    IF i > Len(sel) THEN [valid_geo |-> TRUE, is_two_lines |-> is_two_lines]
    ELSE LET geo_type == sel[i].type
             two == IF geo_type = "ArcOfCircle" THEN FALSE ELSE is_two_lines
             valid_geo ==
                 IF geo_type = "LineSegment" THEN TRUE
                 ELSE IF geo_type = "ArcOfCircle" THEN last_type # "ArcOfCircle"
                 ELSE FALSE
         IN  IF ~valid_geo THEN [valid_geo |-> FALSE, is_two_lines |-> two]
             ELSE Mut_GeoLoop(sel, i + 1, geo_type, two)

RECURSIVE GeoLoop(_, _, _, _)
\* The type loop of _validate_selection_geometry, from element i on.
GeoLoop(sel, i, last_type, is_two_lines) ==
    IF i > Len(sel) THEN [valid_geo |-> TRUE, is_two_lines |-> is_two_lines]
    ELSE LET geo_type == sel[i].type
             two == IF geo_type = "ArcOfCircle" THEN FALSE ELSE is_two_lines
             valid_geo ==
                 IF geo_type = "LineSegment" THEN sel[i].Construction
                 ELSE IF geo_type = "ArcOfCircle" THEN last_type # "ArcOfCircle"
                 ELSE FALSE
         IN  IF ~valid_geo THEN [valid_geo |-> FALSE, is_two_lines |-> two]
             ELSE GeoLoop(sel, i + 1, geo_type, two)

\* _validate_selection_geometry: the value returned and the tags notified.
\* coincident is selection[0].is_coincident(selection[1].index), attached is
\* selection[0].match_attached_geometry().
validate_selection_geometry(sel, coincident, attached) ==
    IF Len(sel) = 0 THEN [ret |-> TRUE, errs |-> <<>>]
    ELSE IF Len(sel) # 2 THEN [ret |-> FALSE, errs |-> <<"Selection">>]
    ELSE LET loop == GeoLoop(sel, 1, "None", TRUE)
         IN  IF loop.valid_geo /\ loop.is_two_lines /\ coincident
             THEN [ret |-> TRUE,
                   errs |-> IF \E i \in DOMAIN attached :
                                  attached[i].type = "ArcOfCircle"
                            THEN <<"Attached Geometry">> ELSE <<>>]
             ELSE [ret |-> loop.valid_geo, errs |-> <<>>]

\* _validate_selection_constraints: the sketch's constraints of a valid type.
validate_selection_constraints(sel, constraints) ==
    LET two_back_tangents ==
            sel[1].type = "LineSegment" /\ sel[2].type = "LineSegment"
        is_valid(c) ==
            \/ c.Type = "Tangent" /\ ~two_back_tangents
            \/ c.Type \in {"Coincident", "PointOnObject"} /\ two_back_tangents
        idx == SelectSeq([i \in DOMAIN constraints |-> i],
                         LAMBDA i : is_valid(constraints[i]))
    IN  [k \in DOMAIN idx |-> SketchConstraint(idx[k] - 1)]

RECURSIVE AreConnected(_, _, _)
\* The inner loop of _validate_selection_bindings, from element i on: the
\* value of are_connected when the loop ends.
AreConnected(c, sel, i) ==
    IF i > Len(sel) THEN i > 1
    ELSE IF c.First = sel[i].index \/ c.Second = sel[i].index
         THEN AreConnected(c, sel, i + 1)
         ELSE FALSE

RECURSIVE BindingLoop(_, _, _, _)
BindingLoop(sel, list, constraints, k) ==
    IF k > Len(list) THEN <<>>
    ELSE IF AreConnected(constraints[list[k].index + 1], sel, 1)
         THEN <<list[k]>>
         ELSE BindingLoop(sel, list, constraints, k + 1)

\* _validate_selection_bindings: the first constraint of `list` that names
\* every selected element.
validate_selection_bindings(sel, list, constraints) ==
    BindingLoop(sel, list, constraints, 1)

\* _validate_selection: what it returns ("None", or the list), the exception
\* it raises if any, and the tags it notifies.
validate_selection(sel, constraints, coincident, attached) ==
    LET g == validate_selection_geometry(sel, coincident, attached)
    IN  IF ~g.ret
        THEN [ret |-> "None", list |-> <<>>,
              errs |-> g.errs \o <<"Invalid Geometry">>]
        ELSE IF Len(sel) < 2
        THEN [ret |-> "IndexError", list |-> <<>>, errs |-> g.errs]
        ELSE LET valid == validate_selection_constraints(sel, constraints)
                 bound == validate_selection_bindings(sel, valid, constraints)
             IN  IF valid = <<>> \/ bound = <<>>
                 THEN [ret |-> "None", list |-> <<>>,
                       errs |-> g.errs \o <<"Invalid Constraint">>]
                 ELSE [ret |-> "list", list |-> sel \o bound, errs |-> g.errs]

RECURSIVE SortLoop(_, _, _)
\* The sorting loop of _get_tangents, from element i on.
SortLoop(list, i, acc) ==
    IF i > Len(list) THEN acc
    ELSE LET sel == list[i]
         IN  SortLoop(list, i + 1,
                 IF sel.type = "ArcOfCircle" THEN Put(acc, "arc", sel)
                 ELSE IF acc["start_tangent"] = NoneElem
                      THEN Put(acc, "start_tangent", sel)
                      ELSE Put(acc, "end_tangent", sel))

RECURSIVE FirstOtherLine(_, _, _)
\* The search loop of _get_tangents: the first attached line segment whose
\* index differs from the start tangent's, or NoneElem.
FirstOtherLine(attached, i, start_index) ==
    IF i > Len(attached) THEN NoneElem
    ELSE IF attached[i].index # start_index /\ attached[i].type = "LineSegment"
         THEN attached[i]
         ELSE FirstOtherLine(attached, i + 1, start_index)

NewDict ==
    [k \in {"arc", "start_tangent", "end_tangent", "constraint"} |-> NoneElem]

\* _get_tangents: attached is result["arc"].match_attached_geometry().
get_tangents(list, attached) ==
    LET sorted == SortLoop(list, 1, NewDict)
    IN  IF sorted["arc"] = NoneElem THEN sorted
        ELSE LET found == FirstOtherLine(attached, 1,
                                         sorted["start_tangent"].index)
             IN  IF found = NoneElem THEN sorted
                 ELSE Put(sorted, "end_tangent", found)

\* _get_constrained_vertex, from the constraint's FirstPos and SecondPos.
get_constrained_vertex(FirstPos, SecondPos) ==
    (IF FirstPos = 0 THEN SecondPos ELSE FirstPos) - 1

\* ------------------------------------------------------------------- state

GuiObject(Name, TypeId, ProxyType, GroupLen) ==
    [Name |-> Name, TypeId |-> TypeId, ProxyType |-> ProxyType,
     GroupLen |-> GroupLen]

Sketches ==
    { GuiObject(n, "Sketcher::SketchObject", "absent", 0)
        : n \in {"Sketch", "Sketch001"} }

NoDoc == [kind |-> "none"]

\* No ImportTask has been constructed.
NoTask == [constructed |-> FALSE]

\* What every invocation starts from: the locals and the logs are empty.
Enter(c, p) ==
    /\ pc = "idle"
    /\ cmd' = c
    /\ pc' = p
    /\ result' = "running"
    /\ sel_list' = <<>>
    /\ geo_dict' = EmptyDict
    /\ vertex_index' = -1
    /\ calls' = <<>>
    /\ dialogs' = <<>>
    /\ prints' = <<>>
    /\ interp' = "unknown"
    /\ UNCHANGED <<self_sketch, task>>

\* The handler ends: it returned, or an exception left it.
Finish(r) ==
    /\ pc' = "done"
    /\ result' = r

\* Control is back with the host: the handler's locals are gone, and what
\* the handler left in attributes stays.
Return ==
    /\ pc = "done"
    /\ cmd' = "none"
    /\ pc' = "idle"
    /\ result' = "none"
    /\ gui_selection' = <<>>
    /\ selection' = <<>>
    /\ Constraints' = <<>>
    /\ doc' = NoDoc
    /\ sel_list' = <<>>
    /\ geo_dict' = EmptyDict
    /\ vertex_index' = -1
    /\ calls' = <<>>
    /\ dialogs' = <<>>
    /\ prints' = <<>>
    /\ interp' = "unknown"
    /\ UNCHANGED <<self_sketch, task>>

Init ==
    /\ cmd = "none"
    /\ pc = "idle"
    /\ result = "none"
    /\ self_sketch = "None"
    /\ interp = "unknown"
    /\ gui_selection = <<>>
    /\ selection = <<>>
    /\ Constraints = <<>>
    /\ doc = NoDoc
    /\ sel_list = <<>>
    /\ geo_dict = EmptyDict
    /\ vertex_index = -1
    /\ calls = <<>>
    /\ dialogs = <<>>
    /\ prints = <<>>
    /\ task = NoTask

\* ------------------------------------------------- InsertCurve.Activated

curve_inputs == <<gui_selection, selection, Constraints, doc>>

curve_locals == <<sel_list, geo_dict, vertex_index>>

\* The host invokes the command: the selection and the selected sketch are
\* whatever the user has made them.
InvokeInsertCurve ==
    /\ Enter("InsertCurve", "activated")
    /\ doc' = NoDoc
    /\ \/ /\ gui_selection' = <<>>
          /\ selection' = <<>>
          /\ Constraints' = <<>>
       \/ /\ \E s \in Sketches : gui_selection' = <<s>>
          /\ selection' \in Selections
          /\ Constraints' \in ConstraintLists

At(c, p) == cmd = c /\ pc = p /\ result = "running"

\* Activated keeping the sketch it already holds: self.sketch is assigned
\* only while it is unset.
Mut_ActivatedSelect ==
    /\ At("InsertCurve", "activated")
    /\ IF gui_selection = <<>>
       THEN /\ dialogs' = dialogs \o Notify(<<"Selection">>)
            /\ Finish("returned")
            /\ UNCHANGED self_sketch
       ELSE /\ self_sketch' = IF self_sketch = "None"
                              THEN gui_selection[1].Name ELSE self_sketch
            /\ pc' = "validate"
            /\ UNCHANGED <<dialogs, result>>
    /\ UNCHANGED <<task, cmd, interp, calls, prints>>
    /\ UNCHANGED curve_inputs
    /\ UNCHANGED curve_locals

\* Activated, lines 44-48: the empty-selection check, and self.sketch.
ActivatedSelect ==
    /\ At("InsertCurve", "activated")
    /\ IF gui_selection = <<>>
       THEN /\ dialogs' = dialogs \o Notify(<<"Selection">>)
            /\ Finish("returned")
            /\ UNCHANGED self_sketch
       ELSE /\ self_sketch' = gui_selection[1].Name
            /\ pc' = "validate"
            /\ UNCHANGED <<dialogs, result>>
    /\ UNCHANGED <<task, cmd, interp, calls, prints>>
    /\ UNCHANGED curve_inputs
    /\ UNCHANGED curve_locals

\* _validate_selection_geometry asks the sketch about coincidence and
\* attached geometry at lines 689-691 only: for two valid line segments.
AsksSketch(sel) ==
    /\ Len(sel) = 2
    /\ LET loop == GeoLoop(sel, 1, "None", TRUE)
       IN  loop.valid_geo /\ loop.is_two_lines

\* Activated, lines 51-54: _validate_selection and the test of its result.
ActivatedValidate ==
    /\ At("InsertCurve", "validate")
    /\ \E coincident \in IF AsksSketch(selection) THEN BOOLEAN ELSE {FALSE},
          attached \in IF AsksSketch(selection)
                       THEN AttachedLists(selection) ELSE {<<>>} :
          LET v == validate_selection(selection, Constraints, coincident,
                                      attached)
          IN  /\ dialogs' = dialogs \o Notify(v.errs)
              /\ IF v.ret = "list"
                 THEN /\ sel_list' = v.list
                      /\ pc' = "get_tangents"
                      /\ UNCHANGED result
                 ELSE /\ Finish(IF v.ret = "None" THEN "returned" ELSE v.ret)
                      /\ UNCHANGED sel_list
    /\ UNCHANGED <<task, cmd, self_sketch, interp, geo_dict, vertex_index, calls,
                   prints>>
    /\ UNCHANGED curve_inputs

\* Activated, lines 58-67: _get_tangents and the test for an arc without a
\* second back tangent.
ActivatedGetTangents ==
    /\ At("InsertCurve", "get_tangents")
    /\ \E attached \in AttachedLists(selection) :
          LET d == get_tangents(sel_list, attached)
          IN  /\ geo_dict' = d
              /\ IF d["arc"] = NoneElem
                 THEN pc' = "arc_parameters" /\ UNCHANGED result
                 ELSE IF d["end_tangent"] = NoneElem
                 THEN Finish("returned")
                 ELSE pc' = "constrained_vertex" /\ UNCHANGED result
    /\ UNCHANGED <<task, cmd, self_sketch, interp, sel_list, vertex_index, calls,
                   dialogs, prints>>
    /\ UNCHANGED curve_inputs

\* Activated without the return of line 77: the error is shown and the
\* handler goes on to _delete_constraints.
Mut_ActivatedConstrainedVertex ==
    /\ At("InsertCurve", "constrained_vertex")
    /\ \E i \in DOMAIN Constraints, FirstPos \in PointPos, SecondPos \in PointPos :
          LET index == get_constrained_vertex(FirstPos, SecondPos)
          IN  /\ geo_dict' = Put(geo_dict, "constraint", SketchConstraint(i - 1))
              /\ vertex_index' = index
              /\ dialogs' = IF index < 0
                            THEN dialogs \o Notify(<<"Invalid Constraint">>)
                            ELSE dialogs
              /\ pc' = "delete_constraints"
              /\ UNCHANGED result
    /\ UNCHANGED <<task, cmd, self_sketch, interp, sel_list, calls, prints>>
    /\ UNCHANGED curve_inputs

\* Activated, lines 69-77: the arc's binding constraint, the index of the
\* vertex it constrains, and the test of that index.
ActivatedConstrainedVertex ==
    /\ At("InsertCurve", "constrained_vertex")
    /\ \E i \in DOMAIN Constraints, FirstPos \in PointPos, SecondPos \in PointPos :
          LET index == get_constrained_vertex(FirstPos, SecondPos)
          IN  /\ geo_dict' = Put(geo_dict, "constraint", SketchConstraint(i - 1))
              /\ vertex_index' = index
              /\ IF index < 0
                 THEN /\ dialogs' = dialogs \o Notify(<<"Invalid Constraint">>)
                      /\ Finish("returned")
                 ELSE /\ pc' = "delete_constraints"
                      /\ UNCHANGED <<dialogs, result>>
    /\ UNCHANGED <<task, cmd, self_sketch, interp, sel_list, calls, prints>>
    /\ UNCHANGED curve_inputs

\* The delConstraint calls of _delete_constraints for the list `attached`.
DelCalls(attached) ==
    [i \in DOMAIN attached |-> Call("delConstraint", attached[i].index, 0, "")]

RECURSIVE LastGeometry(_, _, _)
\* The element _delete_constraints leaves under "adjacent": the last one of
\* `attached` that is no constraint.
LastGeometry(attached, i, acc) ==
    IF i > Len(attached) THEN acc
    ELSE LastGeometry(attached, i + 1,
             IF attached[i].kind # "constraint"
             THEN Put(acc, "adjacent", attached[i]) ELSE acc)

\* Activated, line 81: _delete_constraints.
ActivatedDeleteConstraints ==
    /\ At("InsertCurve", "delete_constraints")
    /\ IF vertex_index >= ArcPointCount
       THEN /\ Finish("IndexError")
            /\ UNCHANGED <<geo_dict, calls>>
       ELSE \E attached \in VertexLists :
            /\ calls' = calls \o DelCalls(attached) \o <<Recompute>>
            /\ geo_dict' = LastGeometry(attached, 1, geo_dict)
            /\ pc' = "adjust_curve"
            /\ UNCHANGED result
    /\ UNCHANGED <<task, cmd, self_sketch, interp, sel_list, vertex_index, dialogs,
                   prints>>
    /\ UNCHANGED curve_inputs

\* _adjust_curve without the recompute() of line 392.
Mut_ActivatedAdjustCurve ==
    /\ At("InsertCurve", "adjust_curve")
    /\ calls' = calls
          \o <<Call("movePoint", geo_dict["arc"].index, vertex_index + 1, "")>>
    /\ pc' = "new_back_tangent"
    /\ UNCHANGED <<task, cmd, result, self_sketch, interp, dialogs, prints>>
    /\ UNCHANGED curve_inputs
    /\ UNCHANGED curve_locals

\* Activated, line 84: _adjust_curve moves the arc's constrained end point.
ActivatedAdjustCurve ==
    /\ At("InsertCurve", "adjust_curve")
    /\ calls' = calls
          \o <<Call("movePoint", geo_dict["arc"].index, vertex_index + 1, ""),
               Recompute>>
    /\ pc' = "new_back_tangent"
    /\ UNCHANGED <<task, cmd, result, self_sketch, interp, dialogs, prints>>
    /\ UNCHANGED curve_inputs
    /\ UNCHANGED curve_locals

\* The host calls of _generate_new_back_tangent, lines 457-478.
NewTangentCalls(d, index) ==
    <<Call("addGeometry", GeometryCount, 0, "new_tangent"),
      Recompute,
      Call("addConstraint", d["start_tangent"].index, 1, "PointOnObject"),
      Call("addConstraint", d["end_tangent"].index, 2, "PointOnObject"),
      Recompute,
      Call("addConstraint", d["arc"].index, index + 1, "Tangent"),
      Recompute>>

\* Activated, lines 87-91: _generate_new_back_tangent.  as_line2d() of an
\* end tangent that is a constraint container either raises or yields a line.
ActivatedNewBackTangent ==
    /\ At("InsertCurve", "new_back_tangent")
    /\ \/ /\ geo_dict["end_tangent"].kind = "constraint"
          /\ Finish("AttributeError")
          /\ UNCHANGED <<geo_dict, calls>>
       \/ /\ LET new_tangent == SketchGeometry(GeometryCount, "LineSegment", TRUE)
             IN  geo_dict' = Put(Put(geo_dict, "new_tangent", new_tangent),
                                 "end_tangent", new_tangent)
          /\ calls' = calls \o NewTangentCalls(geo_dict, vertex_index)
          /\ pc' = "arc_parameters"
          /\ UNCHANGED result
    /\ UNCHANGED <<task, cmd, self_sketch, interp, sel_list, vertex_index, dialogs,
                   prints>>
    /\ UNCHANGED curve_inputs

\* dict.has_key exists in Python 2 only; one interpreter runs an invocation.
Interpreters == IF interp = "unknown" THEN {"py2", "py3"} ELSE {interp}

PointI == Elem("vector", -1, "Vector", FALSE)

\* Activated, line 95: _get_arc_parameters with _get_line_segments.
\* coincident is tangents[0].is_coincident(tangents[1].index): then p_i is
\* never stored and line 145 raises KeyError.  Past line 145 the arithmetic
\* either ends, or raises where line 168 reads arc.Location of the container
\* (orthos[0].slope is None).
ActivatedArcParameters ==
    /\ At("InsertCurve", "arc_parameters")
    /\ IF geo_dict["arc"] = NoneElem
       THEN /\ Finish("AttributeError")
            /\ UNCHANGED <<geo_dict, interp>>
       ELSE \E coincident \in BOOLEAN :
            IF coincident
            THEN /\ Finish("KeyError")
                 /\ UNCHANGED <<geo_dict, interp>>
            ELSE \E py \in Interpreters :
                 /\ interp' = py
                 /\ IF py = "py3"
                    THEN Finish("AttributeError") /\ UNCHANGED geo_dict
                    ELSE /\ geo_dict' = Put(geo_dict, "p_i", PointI)
                         /\ \/ Finish("AttributeError")
                            \/ pc' = "add_arc" /\ UNCHANGED result
    /\ UNCHANGED <<task, cmd, self_sketch, sel_list, vertex_index, calls, dialogs,
                   prints>>
    /\ UNCHANGED curve_inputs

NewArc == Elem("part", GeometryCount + 1, "ArcOfCircle", FALSE)

\* Activated, lines 98-103: the new arc is created and added to the sketch.
ActivatedAddArc ==
    /\ At("InsertCurve", "add_arc")
    /\ calls' = calls
          \o <<Call("addGeometry", GeometryCount + 1, 0, "new_arc"), Recompute>>
    /\ geo_dict' = Put(geo_dict, "new arc", NewArc)
    /\ pc' = "reconstrain"
    /\ UNCHANGED <<task, cmd, result, self_sketch, interp, sel_list, vertex_index,
                   dialogs, prints>>
    /\ UNCHANGED curve_inputs

\* _reconstrain: how it ends.  No statement of it changes the sketch.
reconstrain(d, index, py) ==
    IF py = "py3" THEN "AttributeError"
    ELSE IF ~HasKey(d, "arc") THEN "returned"
    ELSE IF index = -1 THEN "returned"
    ELSE IF ~HasKey(d, "new_arc") THEN "KeyError"
    ELSE "TypeError"

\* Activated, lines 105-107: _reconstrain, and the return.
ActivatedReconstrain ==
    /\ At("InsertCurve", "reconstrain")
    /\ \E py \in Interpreters :
          /\ interp' = py
          /\ Finish(reconstrain(geo_dict, vertex_index, py))
    /\ UNCHANGED <<task, cmd, self_sketch, calls, dialogs, prints>>
    /\ UNCHANGED curve_inputs
    /\ UNCHANGED curve_locals

InsertCurveNext ==
    \/ InvokeInsertCurve
    \/ ActivatedSelect
    \/ ActivatedValidate
    \/ ActivatedGetTangents
    \/ ActivatedConstrainedVertex
    \/ ActivatedDeleteConstraints
    \/ ActivatedAdjustCurve
    \/ ActivatedNewBackTangent
    \/ ActivatedArcParameters
    \/ ActivatedAddArc
    \/ ActivatedReconstrain

\* ----------------------------------------------------------- python strings

\* `sub in s` for two strings.
Contains(s, sub) ==
    \E i \in 1..(Len(s) - Len(sub) + 1) : SubSeq(s, i, i + Len(sub) - 1) = sub

culvert_unchanged ==
    <<task, cmd, self_sketch, interp, gui_selection, selection, Constraints,
      doc, sel_list, geo_dict, vertex_index, dialogs>>

\* ------------------------------------------------ GenerateLoft.Activated

LoftTypeIds ==
    {"Part::Part2DObjectPython", "Sketcher::SketchObjectPython", "Part::Feature"}

LoftObjects == { GuiObject("Object", id, "absent", 0) : id \in LoftTypeIds }

GuiSelections(objects) == UNION { [1..n -> objects] : n \in 0..MaxSel }

\* Lofts: the document has an object named Lofts.  Alignments, Templates:
\* how many objects the folder of that name holds, -1 when there is none.
LoftDocs ==
    [kind : {"loft"}, Lofts : BOOLEAN, Alignments : {-1, 1}, Templates : {-1, 1},
     dialog : {"unopened"}]

InvokeGenerateLoft ==
    /\ Enter("GenerateLoft", "activated")
    /\ gui_selection' \in GuiSelections(LoftObjects)
    /\ doc' \in LoftDocs
    /\ UNCHANGED <<selection, Constraints>>

\* The selection loop looking at the first selected object only.
Mut_loft_selection_valid(sel) ==
    sel = <<>> \/ sel[1].TypeId \in {"Part::Part2DObjectPython",
                                     "Sketcher::SketchObjectPython"}

\* The selection loop of Activated, lines 80-89: whether every selected
\* object has one of the two accepted types.
loft_selection_valid(sel) ==
    \A i \in DOMAIN sel :
        sel[i].TypeId \in {"Part::Part2DObjectPython",
                           "Sketcher::SketchObjectPython"}

Count(sel, id) == Cardinality({ i \in DOMAIN sel : sel[i].TypeId = id })

Folder(n) == IF n < 0 THEN 0 ELSE n

\* Activated, lines 74-108: the selection is checked, the lists are filled
\* and the dialog is shown.
LoftActivated ==
    /\ At("GenerateLoft", "activated")
    /\ IF ~loft_selection_valid(gui_selection)
       THEN /\ prints' = Append(prints,
                "Invalid object type found.  Select a spline and sketch to perform loft")
            /\ Finish("returned")
            /\ UNCHANGED calls
       ELSE /\ calls' = Append(calls,
                Call("exec_",
                     Count(gui_selection, "Part::Part2DObjectPython")
                         + Folder(doc.Alignments),
                     Count(gui_selection, "Sketcher::SketchObjectPython")
                         + Folder(doc.Templates),
                     "NewLoftDialog"))
            /\ pc' = "dialog"
            /\ UNCHANGED <<result, prints>>
    /\ UNCHANGED <<task, cmd, self_sketch, interp, gui_selection, selection,
                   Constraints, doc, sel_list, geo_dict, vertex_index, dialogs>>

\* The host calls of Activated, lines 118-125.
LoftCalls ==
    <<Call("createLoftGroup", -1, 0, "Lofts"),
      Call("setProperty", -1, 0, "stations"),
      Call("setProperty", -1, 0, "interval"),
      Call("regenerate", -1, 0, ""),
      Recompute>>

\* Activated, lines 108-125: the user closes the dialog, by either button,
\* and the handler goes on.
LoftDialogClosed ==
    /\ At("GenerateLoft", "dialog")
    /\ \E how \in {"accepted", "rejected"} : doc' = [doc EXCEPT !.dialog = how]
    /\ IF doc.Lofts
       THEN calls' = calls \o LoftCalls /\ Finish("returned")
       ELSE Finish("AttributeError") /\ UNCHANGED calls
    /\ UNCHANGED <<task, cmd, self_sketch, interp, gui_selection, selection,
                   Constraints, sel_list, geo_dict, vertex_index, dialogs,
                   prints>>

\* ------------------------------------------------------- box_culvert_tools

CulvertObjects ==
    { GuiObject("Alignment", "App::FeaturePython", "Alignment", 1),
      GuiObject("Alignment001", "App::FeaturePython", "Alignment", 0),
      GuiObject("Sketch", "Sketcher::SketchObject", "absent", 0),
      GuiObject("Feature", "App::FeaturePython", "untyped", 0),
      GuiObject("Template", "App::FeaturePython", "Template", 1) }

InvokeAdd1CellBox ==
    /\ Enter("add_1_cell_box", "create")
    /\ gui_selection' \in GuiSelections(CulvertObjects)
    /\ doc' = [kind |-> "box"]
    /\ UNCHANGED <<selection, Constraints>>

\* add_1_cell_box, lines 75-80: the group and the box culvert object.
Add1CellBoxCreate ==
    /\ At("add_1_cell_box", "create")
    /\ calls' = calls \o <<Call("addObject", -1, 0, "BoxCulvert1Cell"),
                           Call("setProperty", -1, 0, "Label")>>
    /\ pc' = "sweep"
    /\ UNCHANGED <<result, prints>>
    /\ UNCHANGED culvert_unchanged

\* add_1_cell_box, lines 83-98: the sweep path in the selection: "empty",
\* "invalid", "IndexError" (an alignment with an empty group) or "valid".
sweep_path(sel) ==
    IF sel = <<>> THEN "empty"
    ELSE IF sel[1].ProxyType # "Alignment" THEN "invalid"
    ELSE IF sel[1].GroupLen = 0 THEN "IndexError"
    ELSE "valid"

\* add_1_cell_box, lines 83-111: the selection is checked, then the profile
\* is attached and swept.
Add1CellBoxSweep ==
    /\ At("add_1_cell_box", "sweep")
    /\ LET path == sweep_path(gui_selection)
       IN  IF path = "empty"
           THEN /\ prints' = Append(prints, "No alignment selected")
                /\ Finish("returned")
                /\ UNCHANGED calls
           ELSE IF path = "invalid"
           THEN /\ prints' = Append(prints, "Invalid selection for sweep")
                /\ Finish("returned")
                /\ UNCHANGED calls
           ELSE IF path = "IndexError"
           THEN /\ Finish("IndexError")
                /\ UNCHANGED <<calls, prints>>
           ELSE /\ calls' = calls \o <<Call("setProperty", -1, 0, "SweepPath"),
                                       Call("addObject", -1, 0, "box_1_cell"),
                                       Recompute,
                                       Call("addObject", -1, 0, "sweep")>>
                /\ Finish("returned")
                /\ UNCHANGED prints
    /\ UNCHANGED culvert_unchanged

FaceLists ==
    { <<>>, <<"Face1">>, <<"Face1", "Face6">>, <<"Face6", "Face1">>,
      <<"Face1", "Edge3">>, <<"Edge3", "Face1">>, <<"Edge3", "Vertex2">>,
      <<"Face1", "Face6", "Face2">> }

DraftObjects ==
    { GuiObject(n, "PartDesign::AdditivePipe", "absent", 0)
        : n \in {"AdditivePipe", "Pad"} }

\* The labels of the children of the body's parent group; <<"None">> when the
\* body has no parent group.
GroupLabels ==
    { <<"None">>, <<>>, <<"Body">>, <<"Parameters", "Body">>,
      <<"Body", "Parameters001">> }

\* parent: the TypeId of the selected object's parent, "None" without one.
\* sweep: the body has an AdditivePipe child.
DraftDocs ==
    [kind : {"draft"}, faces : FaceLists,
     parent : {"None", "PartDesign::Body", "App::Part"},
     sweep : BOOLEAN, group : GroupLabels]

InvokeDraftEnds ==
    /\ Enter("draft_ends", "check")
    /\ gui_selection' \in GuiSelections(DraftObjects)
    /\ doc' \in DraftDocs
    /\ UNCHANGED <<selection, Constraints>>

\* draft_ends, lines 127-130: the number of faces counted.
face_count(faces) ==
    IF Len(faces) = 2
    THEN Cardinality({ i \in 1..2 : Contains(faces[i], "Face") })
    ELSE 0

\* get_parameters: whether a child's label holds "Parameters".
get_parameters(labels) ==
    \E i \in DOMAIN labels : Contains(labels[i], "Parameters")

\* draft_ends without the test of lines 153-155 for a missing sweep object.
Mut_draft_checks(sel, d) ==
    IF sel = <<>> THEN [end |-> "IndexError", msg |-> <<>>]
    ELSE IF face_count(d.faces) # 2
    THEN [end |-> "returned", msg |-> <<"invalid face selection">>]
    ELSE IF Len(sel) < 2 THEN [end |-> "IndexError", msg |-> <<>>]
    ELSE IF sel[1].Name # sel[2].Name
    THEN [end |-> "returned",
          msg |-> <<"Selected faces must share the same object">>]
    ELSE IF d.parent = "None" THEN [end |-> "AttributeError", msg |-> <<>>]
    ELSE IF d.parent # "PartDesign::Body"
    THEN [end |-> "AttributeError",
          msg |-> <<"invalid object hierarchy.  Body not found.">>]
    ELSE IF d.group = <<"None">> THEN [end |-> "AttributeError", msg |-> <<>>]
    ELSE IF ~get_parameters(d.group)
    THEN [end |-> "returned", msg |-> <<"Unable to find Parameters object">>]
    ELSE [end |-> "ok", msg |-> <<>>]

\* draft_ends, lines 119-160: how the checks end ("ok", "returned" or the
\* exception raised) and the message printed on the way.
draft_checks(sel, d) ==
    IF sel = <<>> THEN [end |-> "IndexError", msg |-> <<>>]
    ELSE IF face_count(d.faces) # 2
    THEN [end |-> "returned", msg |-> <<"invalid face selection">>]
    ELSE IF Len(sel) < 2 THEN [end |-> "IndexError", msg |-> <<>>]
    ELSE IF sel[1].Name # sel[2].Name
    THEN [end |-> "returned",
          msg |-> <<"Selected faces must share the same object">>]
    ELSE IF d.parent = "None" THEN [end |-> "AttributeError", msg |-> <<>>]
    ELSE IF d.parent # "PartDesign::Body"
    THEN [end |-> "AttributeError",
          msg |-> <<"invalid object hierarchy.  Body not found.">>]
    ELSE IF ~d.sweep
    THEN [end |-> "returned", msg |-> <<"Sweep object not found.">>]
    ELSE IF d.group = <<"None">> THEN [end |-> "AttributeError", msg |-> <<>>]
    ELSE IF ~get_parameters(d.group)
    THEN [end |-> "returned", msg |-> <<"Unable to find Parameters object">>]
    ELSE [end |-> "ok", msg |-> <<>>]

\* draft_ends, lines 119-160: the checks made before the draft.
DraftEndsCheck ==
    /\ At("draft_ends", "check")
    /\ LET c == draft_checks(gui_selection, doc)
       IN  /\ prints' = prints \o c.msg
           /\ IF c.end = "ok"
              THEN pc' = "draft" /\ UNCHANGED result
              ELSE Finish(c.end)
    /\ UNCHANGED calls
    /\ UNCHANGED culvert_unchanged

\* draft_ends, lines 163-185: the draft object is made and set up.
DraftEndsPerform ==
    /\ At("draft_ends", "draft")
    /\ calls' = calls \o <<Call("newObject", -1, 0, "PartDesign::Draft"),
                           Call("setProperty", -1, 0, "Base"),
                           Call("clearSelection", -1, 0, ""),
                           Recompute,
                           Call("setProperty", -1, 0, "ViewObject"),
                           Call("setExpression", -1, 0, "Angle"),
                           Call("setProperty", -1, 0, "NeutralPlane"),
                           Recompute>>
    /\ Finish("returned")
    /\ UNCHANGED prints
    /\ UNCHANGED culvert_unchanged

CulvertNext ==
    \/ InvokeAdd1CellBox
    \/ Add1CellBoxCreate
    \/ Add1CellBoxSweep
    \/ InvokeDraftEnds
    \/ DraftEndsCheck
    \/ DraftEndsPerform

LoftNext ==
    \/ InvokeGenerateLoft
    \/ LoftActivated
    \/ LoftDialogClosed

Next == InsertCurveNext \/ CulvertNext \/ LoftNext \/ Return

Spec == Init /\ [][Next]_vars

\* ------------------------------------------------- _notify_error on its own

Tags == KnownTags \cup {"", "Selection ", "no arc"}

\* _notify_error is called with any tag.
NotifyAny ==
    /\ pc = "idle"
    /\ Len(dialogs) < MaxDialogs
    /\ \E error_type \in Tags : dialogs' = Append(dialogs, notify_error(error_type))
    /\ UNCHANGED <<task, cmd, pc, result, self_sketch, interp, gui_selection,
                   selection, Constraints, doc, sel_list, geo_dict,
                   vertex_index, calls, prints>>

SpecNotify == Init /\ [][NotifyAny]_vars

\* -------------------------------------------------------------- ImportTask

\* Most accept, reject and examine_file calls made on one task.
MaxCalls == 3

Callbacks == {"update_a", "update_b"}

TaskIds == {"task_a", "task_b"}

Delimiters == {",", ";"}

CheckStates == {"Unchecked", "Checked"}

\* What the file system and csv.Sniffer report for the path in the form's
\* filename field.
Files == [openable : BOOLEAN, delimiter : Delimiters, has_header : BOOLEAN]

NoForm == [set |-> FALSE]

NoCall == [op |-> "none"]

\* ImportTask.__init__: the callback is kept and there is no form yet.
\* invoked is the log of the calls made to update callbacks, returned the
\* values accept and reject have returned, boxes the number of critical
\* message boxes shown, last the call made last.
ImportConstruct ==
    /\ pc = "idle"
    /\ task = NoTask
    /\ \E id \in TaskIds, cb \in Callbacks, py \in {"py2", "py3"},
          CheckState \in CheckStates :
          task' = [constructed |-> TRUE, id |-> id, interp |-> py,
                   update_callback |-> cb, form |-> NoForm,
                   ui |-> CheckState, accepts |-> 0, rejects |-> 0,
                   invoked |-> <<>>, returned |-> <<>>, boxes |-> 0,
                   last |-> NoCall]
    /\ UNCHANGED <<cmd, pc, result, self_sketch, interp, gui_selection,
                   selection, Constraints, doc, sel_list, geo_dict,
                   vertex_index, calls, dialogs, prints>>

import_unchanged ==
    <<cmd, pc, result, self_sketch, interp, gui_selection, selection,
      Constraints, doc, sel_list, geo_dict, vertex_index, calls, dialogs,
      prints>>

\* A method of the task can be called: the task exists and the number of
\* calls is within the bound.
Callable ==
    /\ pc = "idle"
    /\ task.constructed
    /\ Len(task.returned) < MaxCalls

\* ImportTask.setup: the widgets of the task panel are found and kept in
\* self.form; without a main window getMainWindow raises RuntimeError.
ImportSetup ==
    /\ pc = "idle"
    /\ task.constructed
    /\ ~task.form.set
    /\ \E main_window \in BOOLEAN :
          IF main_window
          THEN task' = [task EXCEPT
                   !.form = [set |-> TRUE, delimiter |-> "",
                             headers |-> task.ui, rows |-> 0],
                   !.last = [op |-> "setup", raised |-> "none"]]
          ELSE task' = [task EXCEPT
                   !.last = [op |-> "setup", raised |-> "RuntimeError"]]
    /\ UNCHANGED import_unchanged

\* ImportTask.reject calling the update callback as accept does.
Mut_ImportReject ==
    /\ Callable
    /\ task' = [task EXCEPT
           !.rejects = @ + 1,
           !.invoked = Append(@, [callback |-> task.update_callback,
                                  arg |-> task.id]),
           !.returned = Append(@, "True"),
           !.last = [op |-> "reject", raised |-> "none"]]
    /\ UNCHANGED import_unchanged

\* ImportTask.accept: the update callback is called with the task, and True
\* is returned.
ImportAccept ==
    /\ Callable
    /\ task' = [task EXCEPT
           !.accepts = @ + 1,
           !.invoked = Append(@, [callback |-> task.update_callback,
                                  arg |-> task.id]),
           !.returned = Append(@, "True"),
           !.last = [op |-> "accept", raised |-> "none"]]
    /\ UNCHANGED import_unchanged

\* ImportTask.reject: True is returned.
ImportReject ==
    /\ Callable
    /\ task' = [task EXCEPT
           !.rejects = @ + 1,
           !.returned = Append(@, "True"),
           !.last = [op |-> "reject", raised |-> "none"]]
    /\ UNCHANGED import_unchanged

\* examine_file: the form and the number of message boxes it leaves, and the
\* exception that ends it ("none" when it returns).  Without a form line 122
\* raises.  open() of a path that cannot be opened raises IOError, which is
\* an OSError on Python 3 only.  For a path that can be opened, line 140
\* calls the stream object, which is not callable, so lines 141-155 never
\* run.
examine_file(form, boxes, file, py) ==
    IF ~form.set
    THEN [form |-> form, boxes |-> boxes, raised |-> "AttributeError"]
    ELSE IF ~file.openable
    THEN IF py = "py3"
         THEN [form |-> form, boxes |-> boxes + 1, raised |-> "none"]
         ELSE [form |-> form, boxes |-> boxes, raised |-> "IOError"]
    ELSE [form |-> form, boxes |-> boxes, raised |-> "TypeError"]

\* ImportTask.examine_file, called when the text of the filename field
\* changes.
ImportExamineFile ==
    /\ Callable
    /\ task.boxes < MaxCalls
    /\ \E file \in Files :
          LET e == examine_file(task.form, task.boxes, file, task.interp)
          IN  task' = [task EXCEPT
                  !.form = e.form,
                  !.boxes = e.boxes,
                  !.last = [op |-> "examine_file", raised |-> e.raised,
                            file |-> file, form |-> task.form,
                            boxes |-> task.boxes]]
    /\ UNCHANGED import_unchanged

ImportNext ==
    \/ ImportConstruct
    \/ ImportSetup
    \/ ImportAccept
    \/ ImportReject
    \/ ImportExamineFile

SpecImport == Init /\ [][ImportNext]_vars

\* --------------------------------- _validate_selection_bindings on its own

\* Most constraints in the list given to _validate_selection_bindings.
MaxBindings == 2

\* The function reads First and Second of a constraint only.
BindingConstraints == { c \in ConstraintSet : c.Type = "Coincident" }

BindingLists == UNION { [1..n -> BindingConstraints] : n \in 0..MaxBindings }

\* The constraints of the sketch as the list of SketchConstraint containers
\* _validate_selection_constraints builds from them.
Containers(constraints) ==
    [i \in DOMAIN constraints |-> SketchConstraint(i - 1)]

\* _validate_selection_bindings is called on the two selected elements
\* _validate_selection_geometry lets through and a list of constraints of a
\* valid type; sel_list holds what it returns.
BindingsAny ==
    /\ pc = "idle"
    /\ cmd = "none"
    /\ \E sel \in { x \in Selections : Len(x) = 2 },
          constraints \in BindingLists :
          /\ selection' = sel
          /\ Constraints' = constraints
          /\ sel_list' = validate_selection_bindings(sel, Containers(constraints),
                                                     constraints)
    /\ cmd' = "_validate_selection_bindings"
    /\ UNCHANGED <<task, pc, result, self_sketch, interp, gui_selection, doc,
                   geo_dict, vertex_index, calls, dialogs, prints>>

SpecBindings == Init /\ [][BindingsAny]_vars

\* ------------------------------------------------------------------ claims

ErrorTags == { dialogs[i].error_type : i \in DOMAIN dialogs }

\* C1: when InsertCurve.Activated has shown an error dialog, no addGeometry,
\* addConstraint, delConstraint or movePoint call has been made in that
\* invocation; and after a "Selection", "Invalid Geometry" or "Invalid
\* Constraint" error the handler has returned.
C1_ErrorLeavesSketch ==
    cmd = "InsertCurve" /\ dialogs # <<>> =>
        /\ Mutations(calls) = <<>>
        /\ ErrorTags \cap {"Selection", "Invalid Geometry", "Invalid Constraint"}
               # {} => pc = "done" /\ result = "returned"

\* An arc and a back tangent were selected and validated, and the binding
\* constraint names no point: "Invalid Constraint" is shown at line 76.
C1_Witness ==
    /\ cmd = "InsertCurve" /\ pc = "done" /\ result = "returned"
    /\ sel_list # <<>>
    /\ vertex_index < 0
    /\ ErrorTags = {"Invalid Constraint"}

\* C2: when add_1_cell_box aborts with "No alignment selected" or "Invalid
\* selection for sweep", no document object has been added.
C2_AbortLeavesDocument ==
    cmd = "add_1_cell_box" /\ pc = "done" /\ prints # <<>> =>
        result = "returned" /\ Mutations(calls) = <<>>

\* The checks draft_ends names, read from what the host reports.
DraftChecksPass ==
    /\ Len(doc.faces) = 2
    /\ \A i \in 1..2 : Contains(doc.faces[i], "Face")
    /\ Len(gui_selection) >= 2
    /\ gui_selection[1].Name = gui_selection[2].Name
    /\ doc.sweep
    /\ \E i \in DOMAIN doc.group : Contains(doc.group[i], "Parameters")

DraftCheckMessages ==
    {"invalid face selection", "Selected faces must share the same object",
     "Sweep object not found.", "Unable to find Parameters object"}

\* C3: draft_ends reaches the creation of the PartDesign::Draft object only
\* when every check has passed; a failed check prints its message and
\* returns with no host call made, and whenever a check fails the document
\* is unchanged when the handler ends.
C3_DraftOnlyAfterChecks ==
    cmd = "draft_ends" =>
        /\ pc = "draft" \/ calls # <<>> => DraftChecksPass
        /\ pc = "done" /\ { prints[i] : i \in DOMAIN prints } \cap DraftCheckMessages # {}
               => result = "returned" /\ calls = <<>>

\* Every check passed and the draft object has been created.
C3_Witness ==
    /\ cmd = "draft_ends" /\ pc = "done" /\ result = "returned"
    /\ "newObject" \in Ops(calls)

NewArcAdded ==
    \E i \in DOMAIN calls : calls[i].op = "addGeometry" /\ calls[i].name = "new_arc"

\* C4: an InsertCurve.Activated invocation that returns before the new arc
\* is added has shown exactly one error dialog.
C4_OneDialogPerAbort ==
    cmd = "InsertCurve" /\ pc = "done" /\ result = "returned" /\ ~NewArcAdded =>
        Len(dialogs) = 1

\* C5: the dialog's title is the tag followed by " Error"; each of the six
\* known tags has a message of its own, which no other known tag has and
\* which is not "UNDEFINED ERROR"; any other tag has "UNDEFINED ERROR".
C5_NotifyMessages ==
    \A i \in DOMAIN dialogs :
        /\ dialogs[i].title = dialogs[i].error_type \o " Error"
        /\ dialogs[i].error_type \in KnownTags <=>
               dialogs[i].message # "UNDEFINED ERROR"
        /\ \A j \in DOMAIN dialogs :
               /\ dialogs[i].error_type = dialogs[j].error_type =>
                      dialogs[i].message = dialogs[j].message
               /\ dialogs[i].error_type \in KnownTags
                      /\ dialogs[j].error_type \in KnownTags
                      /\ dialogs[i].error_type # dialogs[j].error_type
                      => dialogs[i].message # dialogs[j].message

\* _notify_error has been called with "No Arc", with another known tag and
\* with a tag that is not known.
C5_Witness ==
    /\ cmd = "none"
    /\ "No Arc" \in ErrorTags
    /\ "Selection" \in ErrorTags
    /\ ErrorTags \ KnownTags # {}

\* Two construction-mode back tangents are selected and a Coincident or
\* PointOnObject constraint joins them.
BoundTangentPair ==
    /\ Len(selection) = 2
    /\ \A i \in 1..2 : selection[i].type = "LineSegment" /\ selection[i].Construction
    /\ \E k \in DOMAIN Constraints :
          /\ Constraints[k].Type \in {"Coincident", "PointOnObject"}
          /\ {Constraints[k].First, Constraints[k].Second}
                 = {selection[1].index, selection[2].index}

\* C6: with a bound pair of back tangents selected (and no arc),
\* InsertCurve.Activated ends having added the new arc with addGeometry.
C6_TangentPairGetsArc ==
    cmd = "InsertCurve" /\ pc = "done" /\ BoundTangentPair => NewArcAdded

CurvePair ==
    /\ Len(selection) = 2
    /\ \A i \in 1..2 : selection[i].type = "ArcOfCircle"

\* C7: for a selection of two arcs _validate_selection_geometry returns True
\* and no "Invalid Geometry" error is shown.
C7_CurvePairAccepted ==
    cmd = "InsertCurve" /\ CurvePair =>
        /\ \A coincident \in BOOLEAN, attached \in AttachedLists(selection) :
               validate_selection_geometry(selection, coincident, attached).ret
        /\ "Invalid Geometry" \notin ErrorTags

\* The new back tangent was bound to an end tangent that is a line segment
\* attached to the arc.
EndTangentFound ==
    \E i \in DOMAIN calls :
        /\ calls[i].op = "addConstraint"
        /\ calls[i].name = "PointOnObject"
        /\ calls[i].pos = 2
        /\ calls[i].index = OtherIdx

\* C8: when InsertCurve.Activated has ended on an arc and an adjacent back
\* tangent, with the new arc added, the sketch has been given a tangent
\* constraint on the new arc.
C8_Reconstrained ==
    cmd = "InsertCurve" /\ pc = "done" /\ EndTangentFound /\ NewArcAdded =>
        \E i \in DOMAIN calls :
            /\ calls[i].op = "addConstraint"
            /\ calls[i].name = "Tangent"
            /\ calls[i].index = NewArc.index

\* C9 as stated: once a handler has returned, no attribute of the plugin
\* references a host entity.
C9_NoRetainedReference ==
    pc \in {"idle", "done"} => self_sketch = "None"

\* C9 as amended: wherever InsertCurve.Activated reads self.sketch, it is the
\* sketch selected now, whatever an earlier invocation left there.
C9_SketchFromCurrentSelection ==
    cmd = "InsertCurve" /\ pc \notin {"idle", "activated"} /\ gui_selection # <<>>
        => self_sketch = gui_selection[1].Name

\* An invocation starts while self.sketch still references the sketch an
\* earlier invocation worked on, and another sketch is selected.
C9_Witness ==
    /\ cmd = "InsertCurve" /\ pc = "activated"
    /\ gui_selection # <<>>
    /\ self_sketch \notin {"None", gui_selection[1].Name}

LoftSelectionInvalid ==
    \E i \in DOMAIN gui_selection :
        /\ gui_selection[i].TypeId # "Part::Part2DObjectPython"
        /\ gui_selection[i].TypeId # "Sketcher::SketchObjectPython"

\* C10: if a selected object has a type other than the two accepted ones,
\* GenerateLoft.Activated returns without showing the dialog, creating a loft
\* group or calling recompute.
C10_LoftValidatesFirst ==
    cmd = "GenerateLoft" /\ LoftSelectionInvalid =>
        /\ calls = <<>>
        /\ pc \in {"activated", "done"}
        /\ pc = "done" => result = "returned"

\* The handler has returned on a selection whose first object is accepted and
\* whose second is not.
C10_Witness ==
    /\ cmd = "GenerateLoft" /\ pc = "done"
    /\ Len(gui_selection) = 2
    /\ gui_selection[1].TypeId = "Sketcher::SketchObjectPython"
    /\ gui_selection[2].TypeId = "Part::Feature"
    /\ prints # <<>>

\* C11: every call made to an update callback is a call of the callback the
\* task was constructed with, with the task itself as argument; there are as
\* many of them as accept calls, so reject makes none; and accept and reject
\* have returned True each time.
C11_CallbackPerAccept ==
    task.constructed =>
        /\ Len(task.invoked) = task.accepts
        /\ \A i \in DOMAIN task.invoked :
               task.invoked[i] = [callback |-> task.update_callback,
                                  arg |-> task.id]
        /\ Len(task.returned) = task.accepts + task.rejects
        /\ \A i \in DOMAIN task.returned : task.returned[i] = "True"

\* accept has been called twice and reject once on the same task.
C11_Witness ==
    /\ task.constructed
    /\ task.accepts = 2
    /\ task.rejects = 1
    /\ task.last.op = "reject"

\* C12: when examine_file has been called on a task whose form is set up,
\* then for a path that can be opened it has returned with the sniffed
\* delimiter in the delimiter field and the headers box Checked exactly when
\* the sniffer reports a header row, and for a path that cannot be opened it
\* has returned having shown one critical dialog and left the form as it was.
C12_ExamineFile ==
    task.constructed /\ task.last.op = "examine_file" /\ task.last.form.set =>
        /\ task.last.raised = "none"
        /\ IF task.last.file.openable
           THEN /\ task.form.delimiter = task.last.file.delimiter
                /\ task.form.headers = "Checked" <=> task.last.file.has_header
           ELSE /\ task.boxes = task.last.boxes + 1
                /\ task.form = task.last.form

\* _validate_selection has run on the selected geometry: Activated shows
\* "Invalid Geometry" exactly when _validate_selection_geometry returned False.
SelectionValidated ==
    /\ cmd = "InsertCurve"
    /\ gui_selection # <<>>
    /\ pc \notin {"idle", "activated", "validate"}

IsBackTangent(e) == e.type = "LineSegment" /\ e.Construction

IsArc(e) == e.type = "ArcOfCircle"

\* Two construction-mode line segments, or one and an arc, in either order.
AcceptedPair(sel) ==
    /\ Len(sel) = 2
    /\ \/ IsBackTangent(sel[1]) /\ IsBackTangent(sel[2])
       \/ IsBackTangent(sel[1]) /\ IsArc(sel[2])
       \/ IsArc(sel[1]) /\ IsBackTangent(sel[2])

C14_AttachedArcRejected ==
    cmd = "InsertCurve" /\ BoundTangentPair /\ "Attached Geometry" \in ErrorTags =>
        /\ "Invalid Geometry" \in ErrorTags
        /\ pc = "done" /\ result = "returned"
        /\ Mutations(calls) = <<>>

\* The constraint names every element of the selection as First or Second.
Connects(c, sel) ==
    \A i \in DOMAIN sel : c.First = sel[i].index \/ c.Second = sel[i].index

\* C15: what _validate_selection_bindings returns is the list of exactly
\* those containers of its input list, in list order, whose constraint names
\* every selected element; it is empty exactly when no constraint of the
\* list does so.
C15_AllBindingsReturned ==
    cmd = "_validate_selection_bindings" =>
        /\ sel_list = SelectSeq(Containers(Constraints),
                          LAMBDA e : Connects(Constraints[e.index + 1], selection))
        /\ sel_list = <<>> <=>
               ~\E k \in DOMAIN Constraints : Connects(Constraints[k], selection)

\* None, or a line segment of the sketch's geometry.
LineOrNone(e) ==
    e = NoneElem \/ (e.kind = "geometry" /\ e.type = "LineSegment")

\* geo_dict is what _get_tangents returned: no later step has put the new
\* back tangent into it.
TangentsSorted ==
    /\ cmd = "InsertCurve"
    /\ HasKey(geo_dict, "arc")
    /\ ~HasKey(geo_dict, "new_tangent")

\* C16: in the dictionary _get_tangents returns for the list of
\* _validate_selection, "arc" is None or an arc, "start_tangent" and
\* "end_tangent" are None or line segments of the geometry, never a
\* constraint, and two selected back tangents are the start tangent and the
\* end tangent, in that order.
C16_TangentsAreLines ==
    TangentsSorted =>
        /\ geo_dict["arc"] = NoneElem
               \/ (geo_dict["arc"].kind = "geometry" /\ IsArc(geo_dict["arc"]))
        /\ LineOrNone(geo_dict["start_tangent"])
        /\ LineOrNone(geo_dict["end_tangent"])
        /\ IsBackTangent(selection[1]) /\ IsBackTangent(selection[2])
               => /\ geo_dict["start_tangent"] = selection[1]
                  /\ geo_dict["end_tangent"] = selection[2]

\* The constraint joins the arc and the start tangent of geo_dict.
BindsArc(c) ==
    {c.First, c.Second}
        = {geo_dict["arc"].index, geo_dict["start_tangent"].index}

\* C17: for a constraint that joins the arc and the start tangent, with any
\* point positions, _get_constrained_vertex returns a negative value exactly
\* when neither position names a point, and otherwise the index (0 start,
\* 1 end) of the arc's point: the position on the constraint's side the arc
\* is on, less one; and once Activated is past the "vertex_index < 0" test,
\* vertex_index is a position of the arc's list of two points.
C17_ArcVertexIndex ==
    /\ cmd = "InsertCurve" /\ pc = "constrained_vertex" =>
           \A k \in DOMAIN Constraints, FirstPos \in PointPos, SecondPos \in PointPos :
               LET c == Constraints[k]
                   arc_pos == IF c.First = geo_dict["arc"].index
                              THEN FirstPos ELSE SecondPos
                   index == get_constrained_vertex(FirstPos, SecondPos)
               IN  BindsArc(c) =>
                       /\ index < 0 <=> FirstPos = 0 /\ SecondPos = 0
                       /\ index >= 0 =>
                              /\ index = arc_pos - 1
                              /\ index \in 0..(ArcPointCount - 1)
    /\ cmd = "InsertCurve" /\ pc = "delete_constraints" =>
           vertex_index \in 0..(ArcPointCount - 1)

ArcSelected ==
    /\ cmd = "InsertCurve"
    /\ \E i \in DOMAIN selection : IsArc(selection[i])

\* The group of Activated a call that changes the sketch belongs to.
Group(c) ==
    IF c.op = "delConstraint" THEN 1
    ELSE IF c.op = "movePoint" THEN 2
    ELSE IF c.op = "addGeometry" /\ c.name = "new_arc" THEN 4
    ELSE 3

\* C18: in a run of Activated with an arc selected, the calls that change
\* the sketch come group by group: the delConstraint calls, the movePoint on
\* point vertex_index + 1 of the arc, the addGeometry of the new back tangent
\* and then its addConstraint calls, the addGeometry of the new arc; a
\* recompute() follows each group and comes before the next one; and the new
\* arc is added only after the movePoint.
C18_MutationOrder ==
    ArcSelected =>
        /\ \A i, j \in DOMAIN calls :
               i < j /\ calls[i].op \in MutatingOps /\ calls[j].op \in MutatingOps
                   => /\ Group(calls[i]) <= Group(calls[j])
                      /\ Group(calls[i]) < Group(calls[j])
                             => \E k \in (i + 1)..(j - 1) : calls[k] = Recompute
                      /\ calls[j].op = "addGeometry" /\ Group(calls[j]) = 3
                             => calls[i].op # "addConstraint"
        /\ calls # <<>> => calls[Len(calls)] = Recompute
        /\ \A i \in DOMAIN calls :
               /\ calls[i].op \in {"recompute"} \cup MutatingOps
               /\ calls[i].op = "movePoint"
                      => /\ calls[i].index = geo_dict["arc"].index
                         /\ calls[i].pos = vertex_index + 1
        /\ Cardinality({ i \in DOMAIN calls : calls[i].op = "movePoint" }) <= 1
        /\ NewArcAdded => "movePoint" \in Ops(calls)
        /\ pc \in {"new_back_tangent", "add_arc", "reconstrain"}
               => "movePoint" \in Ops(calls)

\* With an arc selected, Activated has gone through every group: the new
\* arc has been added.
C18_Witness ==
    /\ ArcSelected
    /\ NewArcAdded
    /\ "delConstraint" \in Ops(calls)
    /\ Cardinality({ i \in DOMAIN calls : calls[i].op = "addConstraint" }) = 3

\* C19: when the New Loft dialog was dismissed, GenerateLoft.Activated has
\* made no call that changes the document, createLoftGroup and regenerate
\* included; a loft group is created only once the dialog was accepted.
C19_CancelCreatesNothing ==
    cmd = "GenerateLoft" =>
        /\ doc.dialog = "rejected" => Mutations(calls) = <<>>
        /\ "createLoftGroup" \in Ops(calls) => doc.dialog = "accepted"

=============================================================================
